---- MODULE Spec2Model ----
(***************************************************************************)
(* Retrieval-and-orchestration pipeline of the RAG system:                 *)
(*   - DocumentProcessor / SimpleDocumentProcessor (chunking),             *)
(*   - SimpleRetriever (lexical retrieval),                                *)
(*   - RAGSystem (add_documents, build_index, load_retriever, query).      *)
(* Strings are sequences of one-character strings.                         *)
(***************************************************************************)
EXTENDS Integers, Sequences, FiniteSets, TLC

VARIABLES
    config,          \* RAGSystem.config: [chunk_size, chunk_overlap]
    same_dir,        \* TRUE iff data_dir resolves to <package>/../../data
    chunks_file,     \* self.chunks_file: [exists, lines], lines a sequence of chunk records
    pkg_chunks_file, \* <package>/../../data/chunks.jsonl when it is another file: [exists, lines]
    retriever,       \* self.retriever: [loaded, chunks]; loaded = FALSE is Python's None
    last,            \* the last call on the instance, its inputs and its outcome
    hist,            \* history: [docs, built, loaded_by]: the documents of the last completed
                     \* add_documents, whether build_index followed it, and the call that
                     \* loaded the retriever since ("none" when the retriever is older or absent)
    ct_in,           \* chunk_text under test: [text, chunk_size, overlap]
    ct_out,          \* chunk_text under test: [impl, returned, chunks], impl = NotRun before the call
    sr_in,           \* search under test: [chunks, query, k]
    sr_out,          \* search under test: [ran, result]
    generator,       \* self.generator: [use_gemini]
    api,             \* the API process: the rag_system global, the requests and the handler
                     \* that holds the event loop
    metadata_file,   \* self.metadata_file (metadata.json of data_dir): [exists, lines], lines
                     \* the entries of the JSON array
    ix,              \* history: [builds, file, once]: the successive successful build_index
                     \* calls on a chunks file nothing else wrote, the file the last of them
                     \* left, and the chunks of the retriever loaded after the first of them
    vr               \* Retriever (vector) under test: its index and chunks_metadata, the
                     \* query and k, and what search and format_context returned

sr_vars == <<sr_in, sr_out>>

vars == <<config, same_dir, chunks_file, pkg_chunks_file, retriever, last, hist, ct_in, ct_out,
          sr_vars, generator, api, metadata_file, ix, vr>>

\* ------------------------------------------------------------------------
\* Bounds
\* ------------------------------------------------------------------------
MaxChunkSize == 3
MaxTextLen == 4
MaxCorpus == 3
MaxK == 3
MaxRequests == 2

\* Program constant: load_config()'s default for default_top_k
DefaultTopK == 5

\* a path at which no file exists; a file holding the given lines
Absent == [exists |-> FALSE, lines |-> <<>>]
File(lines) == [exists |-> TRUE, lines |-> lines]
\* self.retriever = None; a SimpleRetriever holding the given chunks
None == [loaded |-> FALSE, chunks |-> <<>>]
NotRun == "NotRun"

\* ------------------------------------------------------------------------
\* Strings
\* ------------------------------------------------------------------------
TextAlphabet == {"a", "b", " "}

RECURSIVE StringsUpTo(_, _)
StringsUpTo(alphabet, n) ==
    IF n = 0 THEN {<<>>}
    ELSE LET shorter == StringsUpTo(alphabet, n - 1)
         IN shorter \cup {Append(s, c) : s \in {t \in shorter : Len(t) = n - 1}, c \in alphabet}

Min(a, b) == IF a < b THEN a ELSE b
Max(a, b) == IF a > b THEN a ELSE b

IsSpace(c) == c = " "

\* str.strip(): drop leading and trailing whitespace
RECURSIVE LStrip(_)
LStrip(s) == IF s # <<>> /\ IsSpace(Head(s)) THEN LStrip(Tail(s)) ELSE s

RECURSIVE RStrip(_)
RStrip(s) == IF s # <<>> /\ IsSpace(s[Len(s)]) THEN RStrip(SubSeq(s, 1, Len(s) - 1)) ELSE s

Strip(s) == RStrip(LStrip(s))

\* re.sub(r'\s+', ' ', text): every maximal run of whitespace becomes one space
RECURSIVE CollapseSpaces(_)
CollapseSpaces(s) ==
    IF s = <<>> THEN <<>>
    ELSE IF IsSpace(Head(s))
         THEN <<" ">> \o CollapseSpaces(LStrip(s))
         ELSE <<Head(s)>> \o CollapseSpaces(Tail(s))

\* Python slice s[a:b] (0-based, negative indices counted from the end, clamped)
PyIndex(i, n) == IF i < 0 THEN Max(i + n, 0) ELSE Min(i, n)
PySlice(s, a, b) ==
    LET lo == PyIndex(a, Len(s))
        hi == PyIndex(b, Len(s))
    IN IF lo < hi THEN SubSeq(s, lo + 1, hi) ELSE <<>>

\* str(n) for 0 <= n < 100
Digit(d) == CASE d = 0 -> "0" [] d = 1 -> "1" [] d = 2 -> "2" [] d = 3 -> "3" [] d = 4 -> "4"
              [] d = 5 -> "5" [] d = 6 -> "6" [] d = 7 -> "7" [] d = 8 -> "8" [] d = 9 -> "9"
Str(n) == IF n < 10 THEN <<Digit(n)>> ELSE <<Digit(n \div 10), Digit(n % 10)>>

\* ------------------------------------------------------------------------
\* DocumentProcessor
\* ------------------------------------------------------------------------
\* DocumentProcessor.clean_text
clean_text(text) == Strip(CollapseSpaces(text))

\* the chunk dictionary built in the loop body
MakeChunk(cleaned_text, doc_id, title, source_url, chunk_id, start_pos, end_pos) ==
    [id |-> doc_id \o <<"_">> \o Str(chunk_id),
     text |-> PySlice(cleaned_text, start_pos, end_pos),
     title |-> title,
     source_url |-> source_url,
     start_pos |-> start_pos,
     end_pos |-> end_pos]

\* start_pos after one iteration of DocumentProcessor.chunk_text's loop
DPNextStart(end_pos, overlap) == end_pos - overlap

\* The while loop of DocumentProcessor.chunk_text.  The loop body depends on
\* start_pos only, so an iteration entered with a start_pos already seen
\* repeats forever: the call never returns (returned = FALSE, chunks = the
\* chunks appended up to and including the first repeated iteration).
RECURSIVE DPLoop(_, _, _, _, _, _, _, _)
DPLoop(cleaned_text, doc_id, title, source_url, chunk_size, overlap, start_pos, acc) ==
    IF ~(start_pos < Len(cleaned_text)) THEN [returned |-> TRUE, chunks |-> acc.chunks]
    ELSE LET end_pos == Min(start_pos + chunk_size, Len(cleaned_text))
             chunk == MakeChunk(cleaned_text, doc_id, title, source_url,
                                Len(acc.chunks), start_pos, end_pos)
             chunks == Append(acc.chunks, chunk)
             next == DPNextStart(end_pos, overlap)
         IN IF start_pos \in acc.seen THEN [returned |-> FALSE, chunks |-> chunks]
            ELSE IF next >= Len(cleaned_text) THEN [returned |-> TRUE, chunks |-> chunks]
            ELSE DPLoop(cleaned_text, doc_id, title, source_url, chunk_size, overlap, next,
                        [chunks |-> chunks, seen |-> acc.seen \cup {start_pos}])

\* chunk_text with a loop that runs its body once before testing start_pos
chunk_text_EmptyChunk(text, doc_id, title, source_url, chunk_size, overlap) ==
    IF clean_text(text) = <<>>
    THEN [returned |-> TRUE,
          chunks |-> <<MakeChunk(<<>>, doc_id, title, source_url, 0, 0, 0)>>]
    ELSE DPLoop(clean_text(text), doc_id, title, source_url, chunk_size, overlap, 0,
                [chunks |-> <<>>, seen |-> {}])

\* DocumentProcessor.chunk_text
chunk_text(text, doc_id, title, source_url, chunk_size, overlap) ==
    DPLoop(clean_text(text), doc_id, title, source_url, chunk_size, overlap, 0,
           [chunks |-> <<>>, seen |-> {}])

\* ------------------------------------------------------------------------
\* SimpleDocumentProcessor (minimal_rag.py)
\* ------------------------------------------------------------------------
RECURSIVE SDPLoop(_, _, _, _, _, _, _, _)
SDPLoop(cleaned_text, doc_id, title, source_url, chunk_size, overlap, start_pos, acc) ==
    IF ~(start_pos < Len(cleaned_text)) THEN [returned |-> TRUE, chunks |-> acc.chunks]
    ELSE LET L == Len(cleaned_text)
             end_pos == Min(start_pos + chunk_size, L)
             chunk == MakeChunk(cleaned_text, doc_id, title, source_url,
                                Len(acc.chunks), start_pos, end_pos)
             chunks == Append(acc.chunks, chunk)
             moved == end_pos - overlap
             next == IF moved + chunk_size > L THEN Max(L - chunk_size, 0) ELSE moved
         IN IF start_pos \in acc.seen THEN [returned |-> FALSE, chunks |-> chunks]
            ELSE IF moved <= 0 \/ moved >= L THEN [returned |-> TRUE, chunks |-> chunks]
            ELSE SDPLoop(cleaned_text, doc_id, title, source_url, chunk_size, overlap, next,
                         [chunks |-> chunks, seen |-> acc.seen \cup {start_pos}])

\* SimpleDocumentProcessor.chunk_text
simple_chunk_text(text, doc_id, title, source_url, chunk_size, overlap) ==
    SDPLoop(clean_text(text), doc_id, title, source_url, chunk_size, overlap, 0,
            [chunks |-> <<>>, seen |-> {}])

\* save_chunks opening the file in append mode
save_chunks_Append(chunks, file) == File(file.lines \o chunks)

\* DocumentProcessor.save_chunks: open(output_path, 'w') and one line per chunk
save_chunks(chunks, file) == File(chunks)

\* a line of the chunks file that is not a JSON document: what is left of a
\* line whose write did not complete
TornLine == [torn |-> TRUE]
IsChunk(line) == "id" \in DOMAIN line

\* save_chunks when writing the line after the first `written` ones raises:
\* open(output_path, 'w') has emptied the file, the lines written so far are
\* in it, and of the failing line either nothing or a fragment (torn)
save_chunks_fails(chunks, file, written, torn) ==
    File(SubSeq(chunks, 1, written) \o (IF torn THEN <<TornLine>> ELSE <<>>))

\* ------------------------------------------------------------------------
\* SimpleRetriever (rag_pipeline.py)
\* ------------------------------------------------------------------------
\* json.loads(line.strip()) raises on some line of the file
HasMalformed(file) == file.exists /\ \E i \in 1..Len(file.lines) : ~IsChunk(file.lines[i])

\* str.lower()
LowerChar(c) == CASE c = "A" -> "a" [] c = "B" -> "b" [] c = "C" -> "c" [] OTHER -> c
Lower(s) == [i \in 1..Len(s) |-> LowerChar(s[i])]

\* set(s.split()): the maximal runs of non-whitespace characters of s
RECURSIVE SplitFrom(_, _)
SplitFrom(s, word) ==
    IF s = <<>> THEN (IF word = <<>> THEN {} ELSE {word})
    ELSE IF IsSpace(Head(s))
         THEN (IF word = <<>> THEN {} ELSE {word}) \cup SplitFrom(Tail(s), <<>>)
         ELSE SplitFrom(Tail(s), Append(word, Head(s)))
WordSet(s) == SplitFrom(s, <<>>)

\* the score without lower-casing
Score_CaseSensitive(query, text) == Cardinality(WordSet(query) \cap WordSet(text))

\* score = len(query_words.intersection(text_words))
Score(query, text) == Cardinality(WordSet(Lower(query)) \cap WordSet(Lower(text)))

\* result = chunk.copy(); result["score"] = score
WithScore(chunk, score) ==
    [id |-> chunk.id, text |-> chunk.text, title |-> chunk.title, source_url |-> chunk.source_url,
     start_pos |-> chunk.start_pos, end_pos |-> chunk.end_pos, score |-> score]

\* the loop of SimpleRetriever.search: the chunks of positive score, in order
RECURSIVE Scored(_, _)
Scored(chunks, query) ==
    IF chunks = <<>> THEN <<>>
    ELSE LET score == Score(query, Head(chunks).text)
             rest == Scored(Tail(chunks), query)
         IN IF score > 0 THEN <<WithScore(Head(chunks), score)>> \o rest ELSE rest

\* a descending sort that puts later chunks of equal score first
RECURSIVE InsertByScore_TiesReversed(_, _)
InsertByScore_TiesReversed(sorted, r) ==
    IF sorted = <<>> THEN <<r>>
    ELSE IF Head(sorted).score > r.score
         THEN <<Head(sorted)>> \o InsertByScore_TiesReversed(Tail(sorted), r)
         ELSE <<r>> \o sorted

\* list.sort(key=score, reverse=True): stable, descending
RECURSIVE InsertByScore(_, _)
InsertByScore(sorted, r) ==
    IF sorted = <<>> THEN <<r>>
    ELSE IF Head(sorted).score >= r.score
         THEN <<Head(sorted)>> \o InsertByScore(Tail(sorted), r)
         ELSE <<r>> \o sorted

RECURSIVE SortByScore(_)
SortByScore(results) ==
    IF results = <<>> THEN <<>>
    ELSE InsertByScore(SortByScore(SubSeq(results, 1, Len(results) - 1)), results[Len(results)])

\* SimpleRetriever.search
search(chunks, query, k) == PySlice(SortByScore(Scored(chunks, query)), 0, k)

\* SimpleRetriever.__init__: reads <package>/../../data/chunks.jsonl, whatever
\* data_dir the RAGSystem was given; a missing file gives no chunks
SimpleRetriever(file) == [loaded |-> TRUE, chunks |-> IF file.exists THEN file.lines ELSE <<>>]

\* ------------------------------------------------------------------------
\* RAGSystem (rag_pipeline.py)
\* ------------------------------------------------------------------------
GENERAL_KNOWLEDGE == <<"[GENERAL_", "KNOWLEDGE]">>
USED_CONTEXT == <<"[USED_", "CONTEXT]">>

\* sub in s
Contains(s, sub) == \E i \in 1..(Len(s) - Len(sub) + 1) : SubSeq(s, i, i + Len(sub) - 1) = sub

\* s.replace(sub, ""): the non-overlapping occurrences of sub, left to right
RECURSIVE Remove(_, _)
Remove(s, sub) ==
    IF Len(s) < Len(sub) THEN s
    ELSE IF SubSeq(s, 1, Len(sub)) = sub THEN Remove(SubSeq(s, Len(sub) + 1, Len(s)), sub)
    ELSE <<Head(s)>> \o Remove(Tail(s), sub)

\* the text Generator.generate_answer returns when Gemini raises
GENERATION_ERROR_TEXT == <<"I encountered an error while generating the answer.">>

\* Generator.generate_answer: with Gemini an exception of generate_content is
\* caught and the error text is returned as the answer; the local model's
\* tokenizer / generate / decode run unguarded and their exception propagates
generate_answer(use_gemini, collaborator) ==
    IF collaborator.ok THEN [raised |-> FALSE, text |-> collaborator.text]
    ELSE IF use_gemini THEN [raised |-> FALSE, text |-> GENERATION_ERROR_TEXT]
    ELSE [raised |-> TRUE, text |-> <<>>]

\* the tag block treating [USED_CONTEXT] like [GENERAL_KNOWLEDGE]
ProcessTags_ContextAsGeneral(answer) ==
    IF Contains(answer, GENERAL_KNOWLEDGE)
    THEN [used_general_knowledge |-> TRUE, answer |-> Strip(Remove(answer, GENERAL_KNOWLEDGE))]
    ELSE IF Contains(answer, USED_CONTEXT)
    THEN [used_general_knowledge |-> TRUE, answer |-> Strip(Remove(answer, USED_CONTEXT))]
    ELSE [used_general_knowledge |-> FALSE, answer |-> answer]

\* the "Process tags" block of query
ProcessTags(answer) ==
    IF Contains(answer, GENERAL_KNOWLEDGE)
    THEN [used_general_knowledge |-> TRUE, answer |-> Strip(Remove(answer, GENERAL_KNOWLEDGE))]
    ELSE IF Contains(answer, USED_CONTEXT)
    THEN [used_general_knowledge |-> FALSE, answer |-> Strip(Remove(answer, USED_CONTEXT))]
    ELSE [used_general_knowledge |-> FALSE, answer |-> answer]

\* sources filled in whatever the tag
Sources_AlwaysAttributed(passages, used_general_knowledge) ==
    [i \in 1..Len(passages) |->
        [title |-> passages[i].title, source_url |-> passages[i].source_url,
         score |-> passages[i].score]]

\* response["sources"]
Sources(passages, used_general_knowledge) ==
    IF ~used_general_knowledge
    THEN [i \in 1..Len(passages) |->
            [title |-> passages[i].title, source_url |-> passages[i].source_url,
             score |-> passages[i].score]]
    ELSE <<>>

\* the response dictionary of query
Response(question, generated, passages) ==
    LET tags == ProcessTags(generated)
    IN [question |-> question,
        answer |-> tags.answer,
        sources |-> Sources(passages, tags.used_general_knowledge),
        used_passages |-> passages]

\* top_k = config default when None, then int(top_k)
ResolveTopK(top_k) == IF top_k.given THEN top_k.value ELSE DefaultTopK

\* the default id counting positions from 1
DocId_PositionFromOne(doc, i) == IF doc.has_id THEN doc.id ELSE <<"d", "o", "c", "_">> \o Str(i + 1)

\* doc.get('id', f'doc_{i}')
DocId(doc, i) == IF doc.has_id THEN doc.id ELSE <<"d", "o", "c", "_">> \o Str(i)

\* the loop of add_documents over documents[from..]: [returned, chunks]
RECURSIVE ChunkDocuments(_, _, _)
ChunkDocuments(documents, from, cfg) ==
    IF from > Len(documents) THEN [returned |-> TRUE, chunks |-> <<>>]
    ELSE LET doc == documents[from]
             one == chunk_text(doc.text, DocId(doc, from - 1), doc.title, doc.source_url,
                               cfg.chunk_size, cfg.chunk_overlap)
         IN IF ~one.returned THEN [returned |-> FALSE, chunks |-> one.chunks]
            ELSE LET rest == ChunkDocuments(documents, from + 1, cfg)
                 IN [returned |-> rest.returned, chunks |-> one.chunks \o rest.chunks]

\* ------------------------------------------------------------------------
\* Inputs
\* ------------------------------------------------------------------------
\* chunk_size / chunk_overlap pairs with 0 <= overlap < chunk_size
Configs == {c \in [chunk_size : 1..MaxChunkSize, chunk_overlap : 0..MaxChunkSize] :
                c.chunk_overlap < c.chunk_size}

Texts == StringsUpTo(TextAlphabet, MaxTextLen)

\* documents handed to add_documents
DocX == [has_id |-> TRUE, id |-> <<"x">>, title |-> "TitleX", source_url |-> "UrlX",
         text |-> <<"a", " ", "b">>]
DocY == [has_id |-> TRUE, id |-> <<"y">>, title |-> "TitleY", source_url |-> "UrlY",
         text |-> <<" ", "A", " ", " ", "c">>]
DocN == [has_id |-> FALSE, id |-> <<>>, title |-> "", source_url |-> "", text |-> <<"b", " ">>]
DocE == [has_id |-> TRUE, id |-> <<"e">>, title |-> "TitleE", source_url |-> "UrlE",
         text |-> <<" ">>]

DocLists == {<<>>, <<DocX>>, <<DocY>>, <<DocX, DocY>>, <<DocE, DocX>>,
             <<DocX, DocN>>}

Questions == {<<"C", " ", "a">>, <<"z">>}

\* documents whose ids repeat or look like the default ids: DocD carries the
\* id that a document without id gets at position 1
DocD == [has_id |-> TRUE, id |-> <<"d", "o", "c", "_", "1">>, title |-> "TitleD",
         source_url |-> "UrlD", text |-> <<"a">>]
IdDocs == {DocX, DocN, DocD}
IdDocLists == {<<>>} \cup {<<d>> : d \in IdDocs} \cup {<<d, e>> : d, e \in IdDocs}
                  \cup {<<d, e, f>> : d, e, f \in IdDocs}

\* chunk stores handed to SimpleRetriever.search: up to MaxCorpus chunks, the
\* i-th with id k_<i-1>, over texts that share tokens up to case and spacing
SearchTexts == {<<"a">>, <<"A", " ", "b">>, <<"b", " ", " ", "c">>, <<"c">>}
SearchQueries == {<<"a">>, <<"B", " ", "a">>, <<"a", " ", "c", " ", "B", " ", "a">>, <<"z">>, <<" ">>}
RECURSIVE TextLists(_)
TextLists(n) ==
    IF n = 0 THEN {<<>>}
    ELSE LET shorter == TextLists(n - 1)
         IN shorter \cup {Append(l, t) : l \in {m \in shorter : Len(m) = n - 1}, t \in SearchTexts}
Corpus(texts) ==
    [i \in 1..Len(texts) |-> MakeChunk(texts[i], <<"k">>, "T", "U", i - 1, 0, Len(texts[i]))]
Corpora == {Corpus(texts) : texts \in TextLists(MaxCorpus)}
SearchKs == (-1)..MaxK

\* top_k argument of query: None, or an integer
NoTopK == [given |-> FALSE, value |-> 0]
TopKs == {NoTopK} \cup {[given |-> TRUE, value |-> k] : k \in (-1)..1}

\* what the generation collaborator does: it returns a text, or it raises
GenTexts == {<<"w">>,
             GENERAL_KNOWLEDGE \o <<" ", "w">>,
             USED_CONTEXT \o <<" ", "w">>,
             <<"w", " ">> \o USED_CONTEXT \o GENERAL_KNOWLEDGE}
GenOutcomes == {[ok |-> TRUE, text |-> t] : t \in GenTexts} \cup {[ok |-> FALSE, text |-> <<>>]}

\* what the package's own data/chunks.jsonl holds when data_dir is another directory
OtherChunk == [id |-> <<"o", "_", "0">>, text |-> <<"a">>, title |-> "TitleO",
               source_url |-> "UrlO", start_pos |-> 0, end_pos |-> 1]
PackageFiles == {Absent, File(<<OtherChunk>>)}

\* ------------------------------------------------------------------------
\* Specification of chunk_text as a function of its input
\* ------------------------------------------------------------------------
NoResponse == [question |-> <<>>, answer |-> <<>>, sources |-> <<>>, used_passages |-> <<>>]

\* the record of a call: its inputs, what it invoked, how it ended
Call(op, outcome) ==
    [op |-> op, outcome |-> outcome, docs |-> <<>>, question |-> <<>>, top_k |-> NoTopK,
     generated |-> <<>>, searched |-> FALSE, gen_called |-> FALSE, gen_failed |-> FALSE,
     response |-> NoResponse]

Idle ==
    /\ config = [chunk_size |-> 1, chunk_overlap |-> 0]
    /\ same_dir = TRUE
    /\ chunks_file = Absent
    /\ pkg_chunks_file = Absent
    /\ retriever = None
    /\ last = Call("init", "ok")
    /\ hist = [docs |-> <<>>, built |-> FALSE, loaded_by |-> "none"]
    /\ generator = [use_gemini |-> FALSE]

\* requests of the API process, numbered in the order they arrive
Requests == 1..MaxRequests
NoRequest == [kind |-> "none", pc |-> "none", docs |-> <<>>, written |-> 0, waited |-> FALSE,
              status |-> "none", before |-> Absent]

\* module level of api/main.py: rag_system = None, no request yet
ApiStart(has_metadata) ==
    [rag_system |-> FALSE, metadata_file |-> has_metadata, running |-> 0, inits |-> 0,
     query_loads |-> 0, read_partial |-> FALSE, reqs |-> [r \in Requests |-> NoRequest]]

\* no build_index yet
IxStart == [builds |-> 0, file |-> Absent, once |-> [set |-> FALSE, chunks |-> <<>>]]

\* no vector retriever under test
VrNone == [index |-> <<>>, chunks_metadata |-> <<>>, query |-> <<>>, k |-> 0,
           searched |-> FALSE, raised |-> FALSE, labels |-> <<>>, results |-> <<>>,
           formatted |-> {}, vector_context |-> <<>>, lexical_context |-> <<>>]

\* a data_dir without metadata.json, no vector retriever
VrIdle ==
    /\ metadata_file = Absent
    /\ ix = IxStart
    /\ vr = VrNone

SrIdle ==
    /\ sr_in = [chunks |-> <<>>, query |-> <<>>, k |-> 0]
    /\ sr_out = [ran |-> FALSE, result |-> <<>>]
    /\ api = ApiStart(FALSE)
    /\ VrIdle

CtIdle == [impl |-> NotRun, result |-> [returned |-> FALSE, chunks |-> <<>>]]

InitChunk ==
    /\ Idle
    /\ ct_in \in [text : Texts, config : Configs]
    /\ ct_out = CtIdle
    /\ SrIdle

DocumentProcessor_chunk_text ==
    /\ ct_out.impl = NotRun
    /\ ct_out' = [impl |-> "DocumentProcessor",
                  result |-> chunk_text(ct_in.text, <<"d">>, "T", "U",
                                        ct_in.config.chunk_size, ct_in.config.chunk_overlap)]
    /\ UNCHANGED <<config, same_dir, chunks_file, pkg_chunks_file, retriever, last, hist, ct_in,
                 sr_vars, generator, api, metadata_file, ix, vr>>

SimpleDocumentProcessor_chunk_text ==
    /\ ct_out.impl = NotRun
    /\ ct_out' = [impl |-> "SimpleDocumentProcessor",
                  result |-> simple_chunk_text(ct_in.text, <<"d">>, "T", "U",
                                               ct_in.config.chunk_size, ct_in.config.chunk_overlap)]
    /\ UNCHANGED <<config, same_dir, chunks_file, pkg_chunks_file, retriever, last, hist, ct_in,
                 sr_vars, generator, api, metadata_file, ix, vr>>

NextChunk == DocumentProcessor_chunk_text \/ SimpleDocumentProcessor_chunk_text

SpecChunk == InitChunk /\ [][NextChunk]_vars

\* ------------------------------------------------------------------------
\* Claims about chunk_text (checked under SpecChunk)
\* ------------------------------------------------------------------------
CtCleaned == clean_text(ct_in.text)
CtChunks == ct_out.result.chunks
CtOverlap == ct_in.config.chunk_overlap
CtSize == ct_in.config.chunk_size
\* DocumentProcessor.chunk_text, the chunker of RAGSystem, has been applied
CtRan == ct_out.impl = "DocumentProcessor"

\* the window properties of C8, of a chunk sequence chunks over a text of length L
WindowsChained(chunks, L, overlap) ==
    /\ chunks # <<>>
    /\ chunks[1].start_pos = 0
    /\ \A i \in 1..(Len(chunks) - 1) : chunks[i + 1].start_pos = chunks[i].end_pos - overlap
    /\ \A p \in 0..(L - 1) : \E i \in 1..Len(chunks) : chunks[i].start_pos <= p /\ p < chunks[i].end_pos
    /\ chunks[Len(chunks)].end_pos = L

\* C8: for every normalized text of length L > 0 and every configuration with
\* 0 <= O < C, chunk_text produces a chunk sequence whose first chunk starts
\* at 0, whose every next chunk starts at the previous end_pos minus O, that
\* covers [0, L) without a gap and whose last chunk ends at L.
C8_WindowsChainedAndCovering ==
    (CtRan /\ Len(CtCleaned) > 0) =>
        /\ ct_out.result.returned
        /\ WindowsChained(CtChunks, Len(CtCleaned), CtOverlap)

\* the text rebuilt from the chunks, each chunk but the first without the
\* characters it shares with its predecessor
RECURSIVE Rebuild(_, _)
Rebuild(chunks, n) ==
    IF n = 0 THEN <<>>
    ELSE IF n = 1 THEN chunks[1].text
    ELSE LET shared == chunks[n - 1].end_pos - chunks[n].start_pos
         IN Rebuild(chunks, n - 1) \o PySlice(chunks[n].text, Max(shared, 0), Len(chunks[n].text))

\* C9: each chunk's text is the normalized text between its start_pos and its
\* end_pos, with 0 <= start_pos < end_pos <= L, and the chunks concatenated
\* without their shared characters give back the normalized text.
C9_ChunksRebuildText ==
    CtRan =>
        /\ ct_out.result.returned
        /\ \A i \in 1..Len(CtChunks) :
              /\ 0 <= CtChunks[i].start_pos
              /\ CtChunks[i].start_pos < CtChunks[i].end_pos
              /\ CtChunks[i].end_pos <= Len(CtCleaned)
              /\ CtChunks[i].text = SubSeq(CtCleaned, CtChunks[i].start_pos + 1, CtChunks[i].end_pos)
        /\ Rebuild(CtChunks, Len(CtChunks)) = CtCleaned

\* C10: a non-empty normalized text of at most chunk_size characters becomes
\* exactly one chunk, from 0 to L, holding the whole normalized text.
C10_ShortTextOneChunk ==
    (CtRan /\ Len(CtCleaned) > 0 /\ Len(CtCleaned) <= CtSize) =>
        /\ ct_out.result.returned
        /\ Len(CtChunks) = 1
        /\ CtChunks[1].start_pos = 0
        /\ CtChunks[1].end_pos = Len(CtCleaned)
        /\ CtChunks[1].text = CtCleaned

\* C11: for a normalized text longer than chunk_size the final chunk is
\* right-justified: it ends at L and has length exactly chunk_size, so every
\* emitted chunk has length chunk_size and none is shorter than the overlap.
\* (Stated for both chunkers: SimpleDocumentProcessor, which pulls the last
\* window back, and DocumentProcessor, which RAGSystem uses.)
C11_LastChunkRightJustified ==
    (ct_out.impl # NotRun /\ Len(CtCleaned) > CtSize) =>
        /\ ct_out.result.returned
        /\ CtChunks # <<>>
        /\ CtChunks[Len(CtChunks)].end_pos = Len(CtCleaned)
        /\ \A i \in 1..Len(CtChunks) :
              /\ CtChunks[i].end_pos - CtChunks[i].start_pos = CtSize
              /\ Len(CtChunks[i].text) = CtSize
              /\ Len(CtChunks[i].text) >= CtOverlap

\* C12: chunk_text on a text whose normalized form is empty returns an empty
\* chunk sequence, whatever the configuration.
C12_EmptyTextNoChunks ==
    (CtRan /\ CtCleaned = <<>>) =>
        /\ ct_out.result.returned
        /\ CtChunks = <<>>

\* C12 witness: a whitespace-only text chunked with a positive overlap
C12_Witness ==
    /\ CtRan
    /\ Len(ct_in.text) >= 2 /\ CtCleaned = <<>>
    /\ CtOverlap > 0
    /\ ct_out.result.returned /\ CtChunks = <<>>

\* ------------------------------------------------------------------------
\* Specification of a RAGSystem instance
\* ------------------------------------------------------------------------
\* RAGSystem.__init__ in a new data_dir, with the configuration load_config()
\* gives when config.json names no google_api_key: the local model generates
Init ==
    /\ config \in Configs
    /\ same_dir \in BOOLEAN
    /\ chunks_file = Absent
    /\ pkg_chunks_file \in (IF same_dir THEN {Absent} ELSE PackageFiles)
    /\ retriever = None
    /\ generator = [use_gemini |-> FALSE]
    /\ last = Call("init", "ok")
    /\ hist = [docs |-> <<>>, built |-> FALSE, loaded_by |-> "none"]
    /\ ct_in = [text |-> <<>>, config |-> [chunk_size |-> 1, chunk_overlap |-> 0]]
    /\ ct_out = CtIdle
    /\ SrIdle

\* a call that never returns leaves the (single-threaded) instance spinning in it
Alive == last.outcome # "diverges"

\* the file SimpleRetriever.__init__ opens
RetrieverFile == IF same_dir THEN chunks_file ELSE pkg_chunks_file

\* RAGSystem.add_documents(documents)
AddDocuments(documents) ==
    /\ Alive
    /\ LET all == ChunkDocuments(documents, 1, config)
       IN IF all.returned
          THEN /\ chunks_file' = save_chunks(all.chunks, chunks_file)
               /\ last' = [Call("add_documents", "ok") EXCEPT !.docs = documents]
               /\ hist' = [docs |-> documents, built |-> FALSE, loaded_by |-> "none"]
          ELSE /\ last' = [Call("add_documents", "diverges") EXCEPT !.docs = documents]
               /\ UNCHANGED <<chunks_file, hist>>
    /\ UNCHANGED <<config, same_dir, pkg_chunks_file, retriever, ct_in, ct_out, sr_vars, generator, api, metadata_file, ix, vr>>

add_documents == \E documents \in DocLists : AddDocuments(documents)

\* build_index without the existence check
BuildIndexOutcome_AlwaysOk(file) == "ok"

\* RAGSystem.build_index: FileNotFoundError unless the chunks file exists
BuildIndexOutcome(file) == IF ~file.exists THEN "NotFound" ELSE "ok"

\* a build_index that writes the chunks it has read back to the chunks file
build_index_call_Reappends ==
    /\ Alive
    /\ last' = Call("build_index", BuildIndexOutcome(chunks_file))
    /\ hist' = [hist EXCEPT !.built = IF BuildIndexOutcome(chunks_file) = "ok" THEN TRUE ELSE @]
    /\ chunks_file' = IF chunks_file.exists THEN File(chunks_file.lines \o chunks_file.lines)
                       ELSE chunks_file
    /\ UNCHANGED <<config, same_dir, pkg_chunks_file, retriever, ct_in, ct_out, sr_vars, generator, api, metadata_file, vr>>

\* RAGSystem.build_index: the call
build_index_call ==
    /\ Alive
    /\ last' = Call("build_index", BuildIndexOutcome(chunks_file))
    /\ hist' = [hist EXCEPT !.built = IF BuildIndexOutcome(chunks_file) = "ok" THEN TRUE ELSE @]
    /\ UNCHANGED <<config, same_dir, chunks_file, pkg_chunks_file, retriever, ct_in, ct_out, sr_vars, generator, api, metadata_file, vr>>

build_index == build_index_call /\ UNCHANGED ix

\* load_retriever without the existence check
LoadRetriever_NoExistenceCheck == [outcome |-> "ok", retriever |-> SimpleRetriever(RetrieverFile)]

\* RAGSystem.load_retriever: the retriever it leaves in self.retriever, or NotFound
LoadRetriever ==
    IF ~chunks_file.exists
    THEN [outcome |-> "NotFound", retriever |-> retriever]
    ELSE IF HasMalformed(RetrieverFile)
    THEN [outcome |-> "JSONDecodeError", retriever |-> retriever]
    ELSE [outcome |-> "ok", retriever |-> SimpleRetriever(RetrieverFile)]

\* RAGSystem.load_retriever: the chunks_metadata it reads from metadata_file
\* (or []) and hands to the retriever it builds
chunks_metadata == IF metadata_file.exists THEN metadata_file.lines ELSE <<>>

\* RAGSystem.load_retriever: the call
load_retriever_call ==
    /\ Alive
    /\ LET loaded == LoadRetriever
       IN /\ retriever' = loaded.retriever
          /\ last' = Call("load_retriever", loaded.outcome)
          /\ hist' = [hist EXCEPT !.loaded_by = IF loaded.outcome = "ok" THEN "load_retriever" ELSE @]
    /\ UNCHANGED <<config, same_dir, chunks_file, pkg_chunks_file, ct_in, ct_out, sr_vars, generator, api, metadata_file, vr>>

load_retriever == load_retriever_call /\ UNCHANGED ix

\* query loading the retriever on every call
QueryRetriever_AlwaysReload == LoadRetriever

\* query searching whatever self.retriever holds, without loading one
QueryRetriever_NeverLoads ==
    [outcome |-> IF chunks_file.exists THEN "ok" ELSE "NotFound", retriever |-> retriever]

\* the retriever query searches: self.retriever, loaded first when it is None
QueryRetriever ==
    IF ~retriever.loaded THEN LoadRetriever ELSE [outcome |-> "ok", retriever |-> retriever]

\* RAGSystem.query
query ==
    /\ Alive
    /\ \E question \in Questions, top_k \in TopKs, gen \in GenOutcomes :
        LET ready == QueryRetriever
            call == [Call("query", "ok") EXCEPT !.question = question, !.top_k = top_k]
            passages == search(ready.retriever.chunks, question, ResolveTopK(top_k))
            answer == generate_answer(generator.use_gemini, gen)
        IN /\ retriever' = ready.retriever
           /\ hist' = [hist EXCEPT !.loaded_by = IF ~retriever.loaded /\ ready.outcome = "ok"
                                                 THEN "query" ELSE @]
           /\ last' = IF ready.outcome # "ok"
                      THEN [call EXCEPT !.outcome = ready.outcome]
                      ELSE IF answer.raised
                      THEN [call EXCEPT !.outcome = "GenerationError", !.searched = TRUE,
                                        !.gen_called = TRUE, !.gen_failed = ~gen.ok]
                      ELSE [call EXCEPT !.searched = TRUE, !.gen_called = TRUE,
                                        !.gen_failed = ~gen.ok,
                                        !.generated = answer.text,
                                        !.response = Response(question, answer.text, passages)]
    /\ UNCHANGED <<config, same_dir, chunks_file, pkg_chunks_file, ct_in, ct_out, sr_vars, generator, api, metadata_file, ix, vr>>

Next == add_documents \/ build_index \/ load_retriever \/ query

Spec == Init /\ [][Next]_vars

\* ------------------------------------------------------------------------
\* Claims about RAGSystem (checked under Spec)
\* ------------------------------------------------------------------------
QueryReturned == last.op = "query" /\ last.outcome = "ok"

\* what the retriever of the instance returns for the last query
Retrieved == search(retriever.chunks, last.question, ResolveTopK(last.top_k))

\* sources has one entry per passage, in order, with that passage's title,
\* source_url and score and nothing else
Mirrors(sources, passages) ==
    /\ Len(sources) = Len(passages)
    /\ \A i \in 1..Len(passages) :
          sources[i] = [title |-> passages[i].title, source_url |-> passages[i].source_url,
                        score |-> passages[i].score]

\* C1: a query whose generated text contains [GENERAL_KNOWLEDGE] returns an
\* empty sources list, while used_passages is the full retrieval result.
C1_GeneralKnowledgeNoSources ==
    (QueryReturned /\ Contains(last.generated, GENERAL_KNOWLEDGE)) =>
        /\ last.response.sources = <<>>
        /\ last.response.used_passages = Retrieved

\* C1 witness: such a query with passages retrieved
C1_Witness ==
    /\ QueryReturned
    /\ Contains(last.generated, GENERAL_KNOWLEDGE)
    /\ last.response.sources = <<>>
    /\ Len(last.response.used_passages) >= 2

\* C2 as stated: a generated text that contains [USED_CONTEXT], or neither
\* tag, gives sources mirroring used_passages.
C2_Original ==
    (QueryReturned /\ (\/ Contains(last.generated, USED_CONTEXT)
                       \/ ~Contains(last.generated, GENERAL_KNOWLEDGE))) =>
        Mirrors(last.response.sources, last.response.used_passages)

\* C2 amended: a generated text that does not contain [GENERAL_KNOWLEDGE]
\* (it contains [USED_CONTEXT] only, or neither tag) gives a sources list
\* with one entry per retrieved passage, in the order of used_passages, each
\* with exactly that passage's title, source_url and score.
C2_SourcesMirrorPassages ==
    (QueryReturned /\ ~Contains(last.generated, GENERAL_KNOWLEDGE)) =>
        /\ Mirrors(last.response.sources, last.response.used_passages)
        /\ last.response.used_passages = Retrieved

\* C2 witness: a [USED_CONTEXT] answer over two passages of different scores
C2_Witness ==
    /\ QueryReturned
    /\ Contains(last.generated, USED_CONTEXT)
    /\ ~Contains(last.generated, GENERAL_KNOWLEDGE)
    /\ Len(last.response.sources) = 2
    /\ last.response.sources[1].score > last.response.sources[2].score
    /\ last.response.sources[1].title # last.response.sources[2].title

\* the chunk sequence of the i-th document of documents (counted from 1)
DocChunks(documents, i) ==
    chunk_text(documents[i].text, DocId(documents[i], i - 1), documents[i].title,
               documents[i].source_url, config.chunk_size, config.chunk_overlap).chunks

RECURSIVE ChunksBefore(_, _)
ChunksBefore(documents, i) ==
    IF i <= 1 THEN 0 ELSE ChunksBefore(documents, i - 1) + Len(DocChunks(documents, i - 1))

\* lines is the concatenation, in document order, of the documents' chunk sequences
IsConcatenation(lines, documents) ==
    /\ Len(lines) = ChunksBefore(documents, Len(documents) + 1)
    /\ \A i \in 1..Len(documents) : \A j \in 1..Len(DocChunks(documents, i)) :
          lines[ChunksBefore(documents, i) + j] = DocChunks(documents, i)[j]

C4_AddDocumentsKeepsRetriever ==
    [][/\ (last'.op = "add_documents" /\ last'.outcome = "ok") =>
            /\ retriever' = retriever
            /\ chunks_file'.exists
            /\ UNCHANGED <<config, same_dir, pkg_chunks_file>>
       /\ (last'.op = "query" /\ last'.outcome = "ok" /\ retriever.loaded) =>
            /\ retriever' = retriever
            /\ last'.response.used_passages =
                   search(retriever.chunks, last'.question, ResolveTopK(last'.top_k))]_vars

\* C4 witness: a query answered from a retriever loaded before the last
\* add_documents, with passages the newly persisted chunks would not give
C4_Witness ==
    /\ QueryReturned
    /\ same_dir /\ hist.loaded_by = "none" /\ chunks_file.exists
    /\ retriever.chunks # chunks_file.lines
    /\ last.response.used_passages # <<>>
    /\ last.response.used_passages #
           search(chunks_file.lines, last.question, ResolveTopK(last.top_k))

\* C5: without a persisted chunk sequence load_retriever fails with NotFound,
\* and so does a query; the retriever stays unloaded and neither retrieval
\* nor generation is invoked.
C5_NotFoundWithoutChunks ==
    /\ (~chunks_file.exists /\ last.op \in {"load_retriever", "query"}) =>
            last.outcome = "NotFound"
    /\ (last.op \in {"load_retriever", "query"} /\ last.outcome = "NotFound") =>
            /\ ~retriever.loaded
            /\ ~last.searched /\ ~last.gen_called
            /\ last.response = NoResponse

\* C5 witness: a query on an instance without chunks file
C5_Witness ==
    /\ last.op = "query" /\ last.outcome = "NotFound"
    /\ ~chunks_file.exists /\ ~retriever.loaded

\* C6: build_index fails with NotFound when no chunk sequence is persisted
\* and succeeds otherwise; either way no persisted artifact and no in-memory
\* state changes.
C6_BuildIndexChangesNothing ==
    [][last'.op = "build_index" =>
          /\ last'.outcome = (IF chunks_file.exists THEN "ok" ELSE "NotFound")
          /\ UNCHANGED <<config, same_dir, chunks_file, pkg_chunks_file, retriever>>]_vars

\* C6 witness: build_index has succeeded on an instance with a loaded retriever
C6_Witness ==
    /\ last.op = "build_index" /\ last.outcome = "ok"
    /\ retriever.loaded /\ chunks_file.lines # <<>>

\* the documents of docs sharing the most tokens with question
BestDocs(docs, question) ==
    {i \in 1..Len(docs) :
        \A j \in 1..Len(docs) :
            Score(question, clean_text(docs[j].text)) <= Score(question, clean_text(docs[i].text))}

\* C7: after add_documents of documents that each fit one chunk, build_index
\* and load_retriever, query(q, top_k=1) for a q sharing a token with the
\* corpus returns at least one source, and sources[0] is the document sharing
\* the most tokens with q.  (Stated for generated texts without
\* [GENERAL_KNOWLEDGE], for which C1 empties the sources.)
C7_TopSourceIsBestDocument ==
    (/\ QueryReturned
     /\ last.top_k = [given |-> TRUE, value |-> 1]
     /\ hist.built /\ hist.loaded_by = "load_retriever"
     /\ ~Contains(last.generated, GENERAL_KNOWLEDGE)
     /\ \A i \in 1..Len(hist.docs) : Len(clean_text(hist.docs[i].text)) <= config.chunk_size
     /\ \E i \in 1..Len(hist.docs) : Score(last.question, clean_text(hist.docs[i].text)) > 0) =>
        /\ Len(last.response.sources) >= 1
        /\ \E i \in BestDocs(hist.docs, last.question) :
              last.response.sources[1].title = hist.docs[i].title

\* C7 on an instance whose data_dir is the package's data directory
C7_SameDirectory == same_dir => C7_TopSourceIsBestDocument

\* ------------------------------------------------------------------------
\* Specification of add_documents over documents with arbitrary ids
\* ------------------------------------------------------------------------
add_documents_ids == \E documents \in IdDocLists : AddDocuments(documents)

SpecIds == Init /\ [][add_documents_ids]_vars

\* the id the i-th document of documents (counted from 1) is chunked under
EffectiveId(documents, i) ==
    IF documents[i].has_id THEN documents[i].id ELSE <<"d", "o", "c", "_">> \o Str(i - 1)

\* every persisted chunk id is its document's id, "_" and the chunk's
\* sequence number within the document, counted from 0
IdsWellFormed(lines, documents) ==
    \A i \in 1..Len(documents) : \A j \in 1..Len(DocChunks(documents, i)) :
        lines[ChunksBefore(documents, i) + j].id =
            EffectiveId(documents, i) \o <<"_">> \o Str(j - 1)

IdsDistinct(lines) == \A m, n \in 1..Len(lines) : m # n => lines[m].id # lines[n].id

DocIdsDistinct(documents) ==
    \A i, j \in 1..Len(documents) : i # j => EffectiveId(documents, i) # EffectiveId(documents, j)

AddDocumentsDone == last.op = "add_documents" /\ last.outcome = "ok"

\* C13 as stated: after add_documents(D) every chunk id is doc_id, "_" and
\* the sequence number from 0 within its document, and no two chunks of the
\* corpus share an id, for every list D.
C13_Original ==
    AddDocumentsDone =>
        /\ IdsWellFormed(chunks_file.lines, last.docs)
        /\ IdsDistinct(chunks_file.lines)

\* C13 amended: after add_documents(D) every chunk id is doc_id, "_" and the
\* sequence number from 0 within its document; no two chunks of the corpus
\* share an id provided the documents' ids (the caller-supplied id, or the
\* default doc_<position> where none is supplied) are pairwise distinct.
C13_ChunkIds ==
    AddDocumentsDone =>
        /\ Len(chunks_file.lines) = ChunksBefore(last.docs, Len(last.docs) + 1)
        /\ IdsWellFormed(chunks_file.lines, last.docs)
        /\ DocIdsDistinct(last.docs) => IdsDistinct(chunks_file.lines)

\* C13 witness: three documents of distinct ids, one of them without id, one
\* of them in several chunks, persisted under distinct chunk ids
C13_Witness ==
    /\ AddDocumentsDone
    /\ Len(last.docs) = 3 /\ DocIdsDistinct(last.docs)
    /\ \E i \in 1..3 : ~last.docs[i].has_id
    /\ Len(chunks_file.lines) >= 5
    /\ IdsDistinct(chunks_file.lines)

\* ------------------------------------------------------------------------
\* Specification of SimpleRetriever.search as a function of its input
\* ------------------------------------------------------------------------
InitSearch ==
    /\ Idle
    /\ ct_in = [text |-> <<>>, config |-> [chunk_size |-> 1, chunk_overlap |-> 0]]
    /\ ct_out = CtIdle
    /\ sr_in \in [chunks : Corpora, query : SearchQueries, k : SearchKs]
    /\ sr_out = [ran |-> FALSE, result |-> <<>>]
    /\ api = ApiStart(FALSE)
    /\ VrIdle

SimpleRetriever_search ==
    /\ ~sr_out.ran
    /\ sr_out' = [ran |-> TRUE, result |-> search(sr_in.chunks, sr_in.query, sr_in.k)]
    /\ UNCHANGED <<config, same_dir, chunks_file, pkg_chunks_file, retriever, last, hist,
                   ct_in, ct_out, sr_in, generator, api, metadata_file, ix, vr>>

SpecSearch == InitSearch /\ [][SimpleRetriever_search]_vars

\* the whitespace-separated tokens of s: its maximal runs of non-space characters
TokenSpans(s) ==
    {p \in (1..Len(s)) \X (1..Len(s)) :
        /\ p[1] <= p[2]
        /\ \A n \in p[1]..p[2] : s[n] # " "
        /\ p[1] = 1 \/ s[p[1] - 1] = " "
        /\ p[2] = Len(s) \/ s[p[2] + 1] = " "}
Tokens(s) == {SubSeq(s, p[1], p[2]) : p \in TokenSpans(s)}

\* the number of distinct lower-cased tokens two strings share
SharedTokens(q, t) == Cardinality(Tokens(Lower(q)) \cap Tokens(Lower(t)))

\* the positions of the chunks of the store sharing a token with the query
Matching == {i \in 1..Len(sr_in.chunks) : SharedTokens(sr_in.query, sr_in.chunks[i].text) > 0}

\* C14: the score of every chunk search returns is the number of distinct
\* lower-cased whitespace-separated tokens it shares with the query; no chunk
\* of score 0 is returned, and a query sharing no token with any chunk gets
\* an empty result.
C14_ScoreIsSharedTokens ==
    sr_out.ran =>
        /\ \A n \in 1..Len(sr_out.result) :
              /\ sr_out.result[n].score = SharedTokens(sr_in.query, sr_out.result[n].text)
              /\ sr_out.result[n].score > 0
              /\ \E i \in Matching :
                    /\ sr_out.result[n].id = sr_in.chunks[i].id
                    /\ sr_out.result[n].text = sr_in.chunks[i].text
        /\ Matching = {} => sr_out.result = <<>>

\* C14 witness: a chunk returned with score 2 for tokens that differ from the
\* query's in case and spacing, next to a chunk of the store that shares none
C14_Witness ==
    /\ sr_out.ran
    /\ \E n \in 1..Len(sr_out.result) :
          /\ sr_out.result[n].score = 2
          /\ sr_out.result[n].text = <<"A", " ", "b">>
    /\ sr_in.query = <<"B", " ", "a">>
    /\ \E i \in 1..Len(sr_in.chunks) : i \notin Matching

\* C14 witness: a query that shares no token with a store of three chunks
C14_WitnessNoMatch ==
    /\ sr_out.ran /\ sr_in.k >= 1
    /\ Len(sr_in.chunks) = MaxCorpus /\ Matching = {} /\ sr_out.result = <<>>

\* the place of matching chunk i in the order by descending score, ties in
\* the order of the store
Rank(i) ==
    1 + Cardinality({j \in Matching :
            LET si == SharedTokens(sr_in.query, sr_in.chunks[i].text)
                sj == SharedTokens(sr_in.query, sr_in.chunks[j].text)
            IN sj > si \/ (sj = si /\ j < i)})

\* C15: for k >= 1 search returns the first min(k, m) of the m matching
\* chunks, sorted by descending score, chunks of equal score in the order
\* they have in the store.
C15_TopKStable ==
    (sr_out.ran /\ sr_in.k >= 1) =>
        /\ Len(sr_out.result) = Min(sr_in.k, Cardinality(Matching))
        /\ \A i \in Matching :
              Rank(i) <= sr_in.k =>
                  sr_out.result[Rank(i)] =
                      WithScore(sr_in.chunks[i], SharedTokens(sr_in.query, sr_in.chunks[i].text))

\* C15 witness: k = 2 of three matching chunks, the first two of equal score
\* and returned in store order after a later chunk of higher score is gone
C15_Witness ==
    /\ sr_out.ran /\ sr_in.k = 2
    /\ Cardinality(Matching) = 3
    /\ Len(sr_out.result) = 2
    /\ sr_out.result[1].score = sr_out.result[2].score
    /\ sr_out.result[1].id = <<"k", "_", "0">>
    /\ sr_out.result[2].id = <<"k", "_", "2">>
    /\ SharedTokens(sr_in.query, sr_in.chunks[2].text) < sr_out.result[1].score

\* ------------------------------------------------------------------------
\* Specification of a RAGSystem instance whose calls can fail part-way
\* ------------------------------------------------------------------------
\* the document lists of the calls that can fail
FaultDocLists == {<<DocX>>, <<DocY, DocX>>}

\* add_documents when chunk_text raises for one of the documents (its text is
\* not a string): save_chunks is not reached
add_documents_chunking_fails ==
    /\ Alive
    /\ \E documents \in FaultDocLists :
          last' = [Call("add_documents", "TypeError") EXCEPT !.docs = documents]
    /\ UNCHANGED <<config, same_dir, chunks_file, pkg_chunks_file, retriever, hist, ct_in, ct_out,
                   sr_vars, generator, api, metadata_file, ix, vr>>

\* add_documents when a write of save_chunks raises (OSError: no space left,
\* or TypeError of json.dumps) after `written` lines
add_documents_write_fails ==
    /\ Alive
    /\ \E documents \in FaultDocLists :
          LET all == ChunkDocuments(documents, 1, config)
          IN /\ all.returned
             /\ \E written \in 0..(Len(all.chunks) - 1), torn \in BOOLEAN :
                   /\ chunks_file' = save_chunks_fails(all.chunks, chunks_file, written, torn)
                   /\ last' = [Call("add_documents", "WriteError") EXCEPT !.docs = documents]
    /\ UNCHANGED <<config, same_dir, pkg_chunks_file, retriever, hist, ct_in, ct_out,
                   sr_vars, generator, api, metadata_file, ix, vr>>

add_documents_completes == \E documents \in FaultDocLists : AddDocuments(documents)

NextFaults ==
    \/ add_documents_completes
    \/ add_documents_chunking_fails
    \/ add_documents_write_fails
    \/ load_retriever

SpecFaults == Init /\ [][NextFaults]_vars

\* ------------------------------------------------------------------------
\* Specification of a RAGSystem instance with either generator
\* ------------------------------------------------------------------------
\* RAGSystem.__init__ with or without a google_api_key in config.json
InitGen ==
    /\ config \in Configs
    /\ same_dir = TRUE
    /\ chunks_file = Absent
    /\ pkg_chunks_file = Absent
    /\ retriever = None
    /\ generator \in [use_gemini : BOOLEAN]
    /\ last = Call("init", "ok")
    /\ hist = [docs |-> <<>>, built |-> FALSE, loaded_by |-> "none"]
    /\ ct_in = [text |-> <<>>, config |-> [chunk_size |-> 1, chunk_overlap |-> 0]]
    /\ ct_out = CtIdle
    /\ SrIdle

NextGen == add_documents_completes \/ load_retriever \/ query

SpecGen == InitGen /\ [][NextGen]_vars

\* C16: when the generation collaborator fails during a query, the failure
\* reaches the caller of query as an error: no normal response with an answer
\* and sources is returned.
C16_GenerationFailureSurfaced ==
    (last.op = "query" /\ last.gen_failed) =>
        /\ last.outcome = "GenerationError"
        /\ last.response = NoResponse

\* C17: if add_documents fails part-way (chunking or writing raises), the
\* previously persisted chunk sequence is left exactly as it was before the
\* call: no partially written artifact is observable afterwards.
C17_FailedAddDocumentsChangesNothing ==
    [][(last'.op = "add_documents" /\ last'.outcome \in {"TypeError", "WriteError"}) =>
          chunks_file' = chunks_file]_vars

\* the well-formed records of a file, in order
RECURSIVE WellFormed(_)
WellFormed(lines) ==
    IF lines = <<>> THEN <<>>
    ELSE IF IsChunk(Head(lines)) THEN <<Head(lines)>> \o WellFormed(Tail(lines))
    ELSE WellFormed(Tail(lines))

\* C18: a malformed record in the persisted chunk store is skipped: loading
\* the retriever succeeds and the retriever holds the well-formed records.
C18_MalformedRecordSkipped ==
    (last.op = "load_retriever" /\ HasMalformed(RetrieverFile)) =>
        /\ last.outcome = "ok"
        /\ retriever.loaded
        /\ retriever.chunks = WellFormed(RetrieverFile.lines)

\* ------------------------------------------------------------------------
\* Specification of the API process (api/main.py)
\* ------------------------------------------------------------------------
\* The handlers query_rag, add_documents and build_index are coroutines
\* (async def) without any await: the event loop runs a handler from its
\* first statement to its return before it starts another one.  A handler
\* is modelled statement by statement; CanRun says when the event loop lets
\* request r execute its next statement.

\* handlers run by a pool of threads, as plain def handlers would be
CanRun_ThreadPool(r) == TRUE

\* handlers that give up the event loop while they write the chunks file
CanRun_YieldsInWrite(r) ==
    IF api.running \in {0, r} THEN TRUE ELSE api.reqs[api.running].pc = "a_write"

\* the event loop: no handler is running, or r is the running one
CanRun(r) == api.running \in {0, r}

\* what the server finds in its data directory when it starts
ApiDocs == <<DocX>>
StoredFiles == {Absent, File(ChunkDocuments(ApiDocs, 1, [chunk_size |-> 1, chunk_overlap |-> 0]).chunks)}

\* the bodies of the requests
ApiDocLists == {<<DocY>>, <<DocY, DocX>>}

InitApi ==
    /\ config \in Configs
    /\ same_dir = TRUE
    /\ chunks_file \in StoredFiles
    /\ pkg_chunks_file = Absent
    /\ retriever = None
    /\ generator \in [use_gemini : BOOLEAN]
    /\ last = Call("init", "ok")
    /\ hist = [docs |-> <<>>, built |-> FALSE, loaded_by |-> "none"]
    /\ ct_in = [text |-> <<>>, config |-> [chunk_size |-> 1, chunk_overlap |-> 0]]
    /\ ct_out = CtIdle
    /\ sr_in = [chunks |-> <<>>, query |-> <<>>, k |-> 0]
    /\ sr_out = [ran |-> FALSE, result |-> <<>>]
    /\ api \in {ApiStart(m) : m \in BOOLEAN}
    /\ VrIdle

\* the first statement of the handler after ensure_rag_system_loaded()
HandlerEntry(kind) ==
    CASE kind = "query" -> "q_check"
      [] kind = "add_documents" -> "a_open"
      [] kind = "build_index" -> "b_build"
      [] kind = "query_with_wikipedia" -> "w_fetch"

\* some add_documents handler has opened the chunks file and not written all its lines
MidWrite == \E q \in Requests : api.reqs[q].pc = "a_write"

\* a handler that has started and not returned
InProgress(r) == api.reqs[r].pc \notin {"none", "pending", "done"}

\* request r moves to pc
At(r, pc) == [api EXCEPT !.running = r, !.reqs[r].pc = pc]

\* the handler of request r returns (or raises) with status
Returned(a, r, status) ==
    [a EXCEPT !.running = 0,
              !.reqs[r] = [kind |-> a.reqs[r].kind, pc |-> "done", docs |-> <<>>, written |-> 0,
                           waited |-> a.reqs[r].waited, status |-> status,
                           before |-> a.reqs[r].before]]

\* rag.add_documents has returned: the add_documents handler returns, the
\* query_with_wikipedia handler goes on with rag.build_index()
AddDocumentsReturned(a, r) ==
    IF a.reqs[r].kind = "query_with_wikipedia"
    THEN [a EXCEPT !.running = r, !.reqs[r].pc = "b_build", !.reqs[r].written = 0]
    ELSE Returned(a, r, "ok")

\* rag.load_retriever has returned or raised after rag.build_index(): the
\* build_index handler returns, the query_with_wikipedia handler goes on with
\* rag.query unless the load raised
LoadRetrieverReturned(a, r, outcome) ==
    IF a.reqs[r].kind = "query_with_wikipedia" /\ outcome = "ok"
    THEN [a EXCEPT !.running = r, !.reqs[r].pc = "q_check"]
    ELSE Returned(a, r, outcome)

ApiUnchanged ==
    UNCHANGED <<config, same_dir, pkg_chunks_file, generator, last, hist, ct_in, ct_out, sr_vars,
                metadata_file, ix, vr>>

\* a client sends a request
Arrive(r) ==
    /\ api.reqs[r].pc = "none"
    /\ IF r = 1 THEN TRUE ELSE api.reqs[r - 1].pc # "none"
    /\ \E kind \in {"query", "add_documents", "build_index"} :
       \E docs \in (IF kind = "add_documents" THEN ApiDocLists ELSE {<<>>}) :
          api' = [api EXCEPT !.reqs[r] = [kind |-> kind, pc |-> "pending", docs |-> docs,
                                           written |-> 0, waited |-> api.running # 0,
                                           status |-> "none", before |-> Absent]]
    /\ UNCHANGED <<chunks_file, retriever>>
    /\ ApiUnchanged

\* ensure_rag_system_loaded: if rag_system is None
ensure_check(r) ==
    /\ api.reqs[r].pc = "pending"
    /\ CanRun(r)
    /\ api' = At(r, IF api.rag_system THEN HandlerEntry(api.reqs[r].kind) ELSE "init")
    /\ UNCHANGED <<chunks_file, retriever>>
    /\ ApiUnchanged

\* ensure_rag_system_loaded: rag_system = RAGSystem(...), then load_retriever()
\* if chunks file and metadata file exist, any exception of it swallowed
ensure_init(r) ==
    /\ api.reqs[r].pc = "init"
    /\ CanRun(r)
    /\ LET try_load == chunks_file.exists /\ api.metadata_file
           loads == try_load /\ ~HasMalformed(RetrieverFile)
       IN /\ retriever' = IF loads THEN SimpleRetriever(RetrieverFile) ELSE None
          /\ api' = [At(r, HandlerEntry(api.reqs[r].kind)) EXCEPT
                        !.rag_system = TRUE,
                        !.inits = @ + 1,
                        !.query_loads = IF loads /\ api.reqs[r].kind = "query" THEN @ + 1 ELSE @,
                        !.read_partial = @ \/ (loads /\ MidWrite)]
    /\ UNCHANGED chunks_file
    /\ ApiUnchanged

\* RAGSystem.query: if self.retriever is None
q_check(r) ==
    /\ api.reqs[r].pc = "q_check"
    /\ CanRun(r)
    /\ api' = At(r, IF retriever.loaded THEN "q_answer" ELSE "q_load")
    /\ UNCHANGED <<chunks_file, retriever>>
    /\ ApiUnchanged

\* RAGSystem.query: self.load_retriever()
q_load(r) ==
    /\ api.reqs[r].pc = "q_load"
    /\ CanRun(r)
    /\ LET loaded == LoadRetriever
       IN IF loaded.outcome # "ok"
          THEN /\ api' = Returned(api, r, loaded.outcome)
               /\ UNCHANGED retriever
          ELSE /\ retriever' = loaded.retriever
               /\ api' = [At(r, "q_answer") EXCEPT !.query_loads = @ + 1,
                                                    !.read_partial = @ \/ MidWrite]
    /\ UNCHANGED chunks_file
    /\ ApiUnchanged

\* RAGSystem.query: search, format_context, generate_answer, the response
q_answer(r) ==
    /\ api.reqs[r].pc = "q_answer"
    /\ CanRun(r)
    /\ \E gen \in GenOutcomes :
          api' = Returned(api, r, IF generate_answer(generator.use_gemini, gen).raised
                                  THEN "GenerationError" ELSE "ok")
    /\ UNCHANGED <<chunks_file, retriever>>
    /\ ApiUnchanged

\* RAGSystem.add_documents: chunk every document, then open(chunks_file, 'w')
a_open(r) ==
    /\ api.reqs[r].pc = "a_open"
    /\ CanRun(r)
    /\ LET all == ChunkDocuments(api.reqs[r].docs, 1, config)
       IN IF ~all.returned
          THEN /\ api' = At(r, "spinning")
               /\ UNCHANGED chunks_file
          ELSE /\ chunks_file' = File(<<>>)
               /\ api' = IF all.chunks = <<>> THEN AddDocumentsReturned(api, r) ELSE At(r, "a_write")
    /\ UNCHANGED retriever
    /\ ApiUnchanged

\* save_chunks: f.write of the next line; the file is closed after the last one
a_write(r) ==
    /\ api.reqs[r].pc = "a_write"
    /\ CanRun(r)
    /\ LET all == ChunkDocuments(api.reqs[r].docs, 1, config)
           n == api.reqs[r].written + 1
       IN /\ chunks_file' = File(Append(chunks_file.lines, all.chunks[n]))
          /\ api' = IF n = Len(all.chunks) THEN AddDocumentsReturned(api, r)
                     ELSE [At(r, "a_write") EXCEPT !.reqs[r].written = n]
    /\ UNCHANGED retriever
    /\ ApiUnchanged

\* RAGSystem.build_index
b_build(r) ==
    /\ api.reqs[r].pc = "b_build"
    /\ CanRun(r)
    /\ api' = IF BuildIndexOutcome(chunks_file) # "ok"
               THEN Returned(api, r, BuildIndexOutcome(chunks_file))
               ELSE At(r, "b_load")
    /\ UNCHANGED <<chunks_file, retriever>>
    /\ ApiUnchanged

\* RAGSystem.load_retriever, called by the build_index and query_with_wikipedia handlers
b_load(r) ==
    /\ api.reqs[r].pc = "b_load"
    /\ CanRun(r)
    /\ LET loaded == LoadRetriever
       IN /\ retriever' = loaded.retriever
          /\ api' = [LoadRetrieverReturned(api, r, loaded.outcome) EXCEPT
                        !.read_partial = @ \/ (loaded.outcome = "ok" /\ MidWrite)]
    /\ UNCHANGED chunks_file
    /\ ApiUnchanged

NextApi ==
    \E r \in Requests :
        \/ Arrive(r)
        \/ ensure_check(r)
        \/ ensure_init(r)
        \/ q_check(r)
        \/ q_load(r)
        \/ q_answer(r)
        \/ a_open(r)
        \/ a_write(r)
        \/ b_build(r)
        \/ b_load(r)

SpecApi == InitApi /\ [][NextApi]_vars

\* C19: of several queries that run concurrently while the retriever is not
\* loaded, exactly one performs the load (and the one-time initialization of
\* rag_system); the others wait for it and use the retriever it loaded.
C19_OneLoadForConcurrentQueries ==
    /\ api.inits <= 1
    /\ api.query_loads <= 1
    /\ \A r \in Requests :
          (api.reqs[r].kind = "query" /\ api.reqs[r].waited /\ api.reqs[r].status = "ok") =>
              retriever.loaded
    /\ \A r \in Requests : api.reqs[r].pc = "q_answer" => retriever.loaded

\* C19 witness: two queries answered, the second one sent while the first
\* was being handled, after one initialization and one load
C19_Witness ==
    /\ \A r \in 1..2 : api.reqs[r].kind = "query" /\ api.reqs[r].status = "ok"
    /\ api.reqs[2].waited
    /\ api.inits = 1 /\ api.query_loads = 1
    /\ ~api.metadata_file /\ retriever.loaded

WindowsDistinct(chunks) ==
    \A m, n \in 1..Len(chunks) :
        m # n => <<chunks[m].start_pos, chunks[m].end_pos>> # <<chunks[n].start_pos, chunks[n].end_pos>>

\* C25: chunk_text terminates and returns a finite chunk sequence for every
\* text and every configuration with 0 <= overlap < chunk_size, in
\* DocumentProcessor and in SimpleDocumentProcessor, and never emits the same
\* (start_pos, end_pos) window twice.
C25_ChunkTextTerminates ==
    ct_out.impl # NotRun =>
        /\ ct_out.result.returned
        /\ WindowsDistinct(CtChunks)

\* ------------------------------------------------------------------------
\* Further claims about RAGSystem (checked under Spec)
\* ------------------------------------------------------------------------
\* C26: the answer returned by query contains neither [GENERAL_KNOWLEDGE] nor
\* [USED_CONTEXT], whatever the generated text.
C26_AnswerWithoutTags ==
    QueryReturned =>
        /\ ~Contains(last.response.answer, GENERAL_KNOWLEDGE)
        /\ ~Contains(last.response.answer, USED_CONTEXT)

\* C27: after add_documents(D) followed by load_retriever on the same
\* instance, the chunks the retriever searches are exactly the chunk sequence
\* persisted in that instance's chunks_file, for every data_dir.
C27_RetrieverReadsOwnChunks ==
    (last.op = "load_retriever" /\ last.outcome = "ok" /\ hist.docs # <<>>
        /\ hist.loaded_by = "load_retriever") =>
        retriever.chunks = chunks_file.lines

\* C30: for every integer top_k that query accepts, 0 and negative values
\* included, used_passages holds at most max(top_k, 0) passages.
C30_AtMostTopKPassages ==
    (QueryReturned /\ last.top_k.given) =>
        Len(last.response.used_passages) <= Max(last.top_k.value, 0)

\* the lifecycle state of the instance
Phase ==
    IF retriever.loaded THEN "READY"
    ELSE IF ~chunks_file.exists THEN "EMPTY"
    ELSE IF hist.built THEN "INDEXED" ELSE "CHUNKED"

\* the position of a lifecycle state in EMPTY, CHUNKED, INDEXED, READY
PhaseRank(phase) ==
    CASE phase = "EMPTY" -> 0 [] phase = "CHUNKED" -> 1 [] phase = "INDEXED" -> 2 [] phase = "READY" -> 3

\* C28: query loads the retriever only when none is loaded: a query that
\* finds a retriever loaded keeps that very retriever, a query that finds none
\* leaves what load_retriever would leave, after every successful query a
\* retriever is loaded (READY), and a query never moves the instance backwards
\* in EMPTY, CHUNKED, INDEXED, READY, so repeated queries stay in READY.
C28_QueryLoadsLazily ==
    [][last'.op = "query" =>
          /\ retriever.loaded => retriever' = retriever /\ hist'.loaded_by = hist.loaded_by
          /\ ~retriever.loaded => retriever' = LoadRetriever.retriever
          /\ last'.outcome = "ok" => retriever'.loaded
          /\ PhaseRank(Phase') >= PhaseRank(Phase)
          /\ Phase = "READY" => Phase' = "READY"]_vars

\* C28 witness: a query on an INDEXED instance has loaded the retriever itself
\* and answered, leaving the instance READY
C28_Witness ==
    /\ QueryReturned
    /\ hist.built /\ hist.loaded_by = "query"
    /\ Phase = "READY" /\ retriever.chunks # <<>>

\* ------------------------------------------------------------------------
\* The /query_with_wikipedia endpoint
\* ------------------------------------------------------------------------
\* an article as WikipediaFetcher.format_document_for_rag returns it
DocW == [has_id |-> TRUE, id |-> <<"w">>, title |-> "TitleW", source_url |-> "UrlW",
         text |-> <<"c", " ", "a">>]

\* what search_and_fetch_articles returns: no article, or the articles found
WikipediaResults == {<<>>, <<DocW>>}

\* a client sends a /query_with_wikipedia request
ArriveWikipedia(r) ==
    /\ api.reqs[r].pc = "none"
    /\ IF r = 1 THEN TRUE ELSE api.reqs[r - 1].pc # "none"
    /\ api' = [api EXCEPT !.reqs[r] = [kind |-> "query_with_wikipedia", pc |-> "pending",
                                        docs |-> <<>>, written |-> 0, waited |-> api.running # 0,
                                        status |-> "none", before |-> Absent]]
    /\ UNCHANGED <<chunks_file, retriever>>
    /\ ApiUnchanged

\* query_with_wikipedia: wikipedia_docs = search_and_fetch_articles(...), then
\* 'if wikipedia_docs:'; before remembers the chunks file the handler found
w_fetch(r) ==
    /\ api.reqs[r].pc = "w_fetch"
    /\ CanRun(r)
    /\ \E wikipedia_docs \in WikipediaResults :
          api' = [At(r, IF wikipedia_docs # <<>> THEN "a_open" ELSE "q_check") EXCEPT
                     !.reqs[r].docs = wikipedia_docs,
                     !.reqs[r].before = chunks_file]
    /\ UNCHANGED <<chunks_file, retriever>>
    /\ ApiUnchanged

NextWikipedia ==
    \E r \in Requests :
        \/ ArriveWikipedia(r)
        \/ ensure_check(r)
        \/ ensure_init(r)
        \/ w_fetch(r)
        \/ a_open(r)
        \/ a_write(r)
        \/ b_build(r)
        \/ b_load(r)
        \/ q_check(r)
        \/ q_load(r)
        \/ q_answer(r)

SpecWikipedia == InitApi /\ [][NextWikipedia]_vars

\* C29: /query_with_wikipedia adds the fetched documents only temporarily:
\* when the request completes, the persisted chunk sequence is the one the
\* handler found and the loaded retriever holds that corpus.
C29_WikipediaDocumentsTemporary ==
    [][\A r \in Requests :
          (api.reqs[r].kind = "query_with_wikipedia" /\ api.reqs[r].pc # "done"
             /\ api'.reqs[r].pc = "done" /\ api'.reqs[r].status = "ok") =>
                /\ chunks_file' = api.reqs[r].before
                /\ retriever'.chunks = api.reqs[r].before.lines]_vars

\* ------------------------------------------------------------------------
\* Specification of a RAGSystem instance whose index is built and loaded
\* ------------------------------------------------------------------------
MaxBuilds == 2

\* metadata.json of the data directory: none (RAGSystem writes none), or the
\* one another program left there
MetadataFiles == {Absent, File(<<OtherChunk>>)}

InitIndex ==
    /\ config \in Configs
    /\ same_dir \in BOOLEAN
    /\ chunks_file = Absent
    /\ pkg_chunks_file \in (IF same_dir THEN {Absent} ELSE PackageFiles)
    /\ retriever = None
    /\ generator = [use_gemini |-> FALSE]
    /\ last = Call("init", "ok")
    /\ hist = [docs |-> <<>>, built |-> FALSE, loaded_by |-> "none"]
    /\ ct_in = [text |-> <<>>, config |-> [chunk_size |-> 1, chunk_overlap |-> 0]]
    /\ ct_out = CtIdle
    /\ sr_in = [chunks |-> <<>>, query |-> <<>>, k |-> 0]
    /\ sr_out = [ran |-> FALSE, result |-> <<>>]
    /\ api = ApiStart(FALSE)
    /\ metadata_file \in MetadataFiles
    /\ ix = IxStart
    /\ vr = VrNone

\* build_index, counted: the successive successful builds on one chunks file
build_index_counted ==
    /\ build_index_call
    /\ ix' = IF BuildIndexOutcome(chunks_file) # "ok" THEN ix
             ELSE IF ix.builds > 0 /\ ix.file = chunks_file
             THEN [ix EXCEPT !.builds = Min(@ + 1, MaxBuilds), !.file = chunks_file']
             ELSE [builds |-> 1, file |-> chunks_file', once |-> [set |-> FALSE, chunks |-> <<>>]]

\* load_retriever, recorded: the retriever loaded after one build of the chunks file
load_retriever_recorded ==
    /\ load_retriever_call
    /\ ix' = IF LoadRetriever.outcome = "ok" /\ ix.builds = 1 /\ ix.file = chunks_file
             THEN [ix EXCEPT !.once = [set |-> TRUE, chunks |-> LoadRetriever.retriever.chunks]]
             ELSE ix

NextIndex == add_documents_completes \/ build_index_counted \/ load_retriever_recorded

SpecIndex == InitIndex /\ [][NextIndex]_vars

\* load_retriever has returned a retriever after a build of the present chunks file
LoadedAfterBuild ==
    /\ last.op = "load_retriever" /\ last.outcome = "ok"
    /\ ix.builds >= 1 /\ ix.file = chunks_file

\* C21: the metadata a retriever is loaded with after an index build has the
\* length of the persisted chunk sequence, and its entry at every position i
\* is the chunk at position i of that sequence.
C21_MetadataAligned ==
    LoadedAfterBuild =>
        /\ Len(chunks_metadata) = Len(chunks_file.lines)
        /\ \A i \in 1..Len(chunks_file.lines) :
               i <= Len(chunks_metadata) => chunks_metadata[i] = chunks_file.lines[i]

\* the k values a query of this bound may carry
IndexKs == {ResolveTopK(top_k) : top_k \in TopKs} \cup (1..MaxK)

\* C23: running build_index twice on an unchanged chunk sequence and loading
\* the retriever gives, for every query and k, the same search result as
\* running build_index once and loading.
C23_BuildIndexIdempotent ==
    (LoadedAfterBuild /\ ix.builds >= 2 /\ ix.once.set) =>
        \A question \in Questions, k \in IndexKs :
            search(retriever.chunks, question, k) = search(ix.once.chunks, question, k)

\* C23 witness: the retriever loaded after the second build of a chunk
\* sequence that some query matches, another one having been loaded after
\* the first build
C23_Witness ==
    /\ LoadedAfterBuild /\ ix.builds = 2 /\ ix.once.set
    /\ same_dir
    /\ \E question \in Questions : search(retriever.chunks, question, DefaultTopK) # <<>>

\* ------------------------------------------------------------------------
\* EmbeddingManager and the vector Retriever
\* ------------------------------------------------------------------------
\* SentenceTransformer.encode of one text: a fixed vector per text (here the
\* number of occurrences of each letter, case ignored)
Letters == {"a", "b", "c"}
encode(text) == [c \in Letters |-> Cardinality({i \in 1..Len(text) : LowerChar(text[i]) = c})]

\* the squared L2 distance IndexFlatL2 reports
SquaredL2(u, v) ==
    (u["a"] - v["a"]) * (u["a"] - v["a"]) + (u["b"] - v["b"]) * (u["b"] - v["b"])
        + (u["c"] - v["c"]) * (u["c"] - v["c"])

\* EmbeddingManager.build_index_from_chunks: the vector of line i at index
\* position i, and the chunks it returns
build_index_from_chunks(file) ==
    [index |-> [i \in 1..Len(file.lines) |-> encode(file.lines[i].text)],
     chunks |-> file.lines]

\* a distance above that of every vector of the index (FAISS pads with the
\* largest float)
FarDistance(index, xq) ==
    1 + (IF index = <<>> THEN 0
         ELSE CHOOSE d \in {SquaredL2(index[i], xq) : i \in 1..Len(index)} :
                  \A i \in 1..Len(index) : SquaredL2(index[i], xq) <= d)

\* faiss IndexFlatL2.search(xq, k): k (distance, label) pairs, nearest first
\* (equal distances in label order), labels counted from 0, and the pair
\* (far, -1) for every result the index has no vector for
RECURSIVE IndexSearchFrom(_, _, _, _)
IndexSearchFrom(index, xq, k, taken) ==
    IF k <= 0 THEN <<>>
    ELSE LET rest == (1..Len(index)) \ taken
         IN IF rest = {}
            THEN <<[distance |-> FarDistance(index, xq), label |-> -1]>>
                     \o IndexSearchFrom(index, xq, k - 1, taken)
            ELSE LET n == CHOOSE i \in rest : \A j \in rest :
                              \/ SquaredL2(index[i], xq) < SquaredL2(index[j], xq)
                              \/ SquaredL2(index[i], xq) = SquaredL2(index[j], xq) /\ i <= j
                 IN <<[distance |-> SquaredL2(index[n], xq), label |-> n - 1]>>
                        \o IndexSearchFrom(index, xq, k - 1, taken \cup {n})
index_search(index, xq, k) == IndexSearchFrom(index, xq, k, {})

\* Retriever.search, the loop over zip(distances[0], indices[0]): 'if idx <
\* len(self.chunks_metadata)', then self.chunks_metadata[idx] with Python's
\* indexing (a negative idx counts from the end, IndexError beyond the list)
RECURSIVE CollectHits(_, _)
CollectHits(hits, metadata) ==
    IF hits = <<>> THEN [raised |-> FALSE, results |-> <<>>]
    ELSE LET idx == Head(hits).label
             rest == CollectHits(Tail(hits), metadata)
         IN IF ~(idx < Len(metadata)) THEN rest
            ELSE IF idx < 0 /\ idx + Len(metadata) < 0
            THEN [raised |-> TRUE, results |-> <<>>]
            ELSE IF rest.raised THEN rest
            ELSE LET chunk == metadata[(IF idx < 0 THEN idx + Len(metadata) ELSE idx) + 1]
                 IN [rest EXCEPT !.results = <<WithScore(chunk, Head(hits).distance)>> \o @]

\* Retriever.format_context: '[title | source_url] text' blocks joined by
\* a blank line, '---' and a blank line
RECURSIVE Retriever_FormatContext(_)
Retriever_FormatContext(passages) ==
    IF passages = <<>> THEN <<>>
    ELSE <<"[", Head(passages).title, " | ", Head(passages).source_url, "] ">>
             \o Head(passages).text
             \o (IF Len(passages) = 1 THEN <<>>
                 ELSE <<"\n\n---\n\n">> \o Retriever_FormatContext(Tail(passages)))

\* SimpleRetriever.format_context of rag_pipeline.py: 'Document: title',
\* newline, 'Content: text' blocks joined by a blank line, and a fixed
\* sentence for no passage
RECURSIVE SimpleRetriever_FormatBlocks(_)
SimpleRetriever_FormatBlocks(passages) ==
    <<"Document: ", Head(passages).title, "\nContent: ">> \o Head(passages).text
        \o (IF Len(passages) = 1 THEN <<>>
            ELSE <<"\n\n">> \o SimpleRetriever_FormatBlocks(Tail(passages)))
SimpleRetriever_FormatContext(passages) ==
    IF passages = <<>> THEN <<"No relevant information found.">>
    ELSE SimpleRetriever_FormatBlocks(passages)

\* the retrievers under test: the index and the chunks build_index_from_chunks
\* returns for a chunks file, the retriever being constructed with these
\* chunks as metadata, with the [] load_retriever finds without
\* metadata.json, or with a shorter, older list
VecQueries == {<<"a">>, <<"B", " ", "a">>, <<"z">>}
MetadataFor(chunks) == {chunks, <<>>, SubSeq(chunks, 1, 1)}

InitVector ==
    /\ Idle
    /\ ct_in = [text |-> <<>>, config |-> [chunk_size |-> 1, chunk_overlap |-> 0]]
    /\ ct_out = CtIdle
    /\ sr_in = [chunks |-> <<>>, query |-> <<>>, k |-> 0]
    /\ sr_out = [ran |-> FALSE, result |-> <<>>]
    /\ api = ApiStart(FALSE)
    /\ metadata_file = Absent
    /\ ix = IxStart
    /\ \E chunks \in Corpora \ {<<>>} : \E metadata \in MetadataFor(chunks) :
       \E q \in VecQueries, k \in 1..MaxK :
          vr = [VrNone EXCEPT !.index = build_index_from_chunks(File(chunks)).index,
                              !.chunks_metadata = metadata, !.query = q, !.k = k]

VrUnchanged ==
    UNCHANGED <<config, same_dir, chunks_file, pkg_chunks_file, retriever, last, hist, ct_in,
                ct_out, sr_vars, generator, api, metadata_file, ix>>

\* Retriever.search(query, k)
Retriever_search ==
    /\ ~vr.searched
    /\ LET hits == index_search(vr.index, encode(vr.query), vr.k)
           found == CollectHits(hits, vr.chunks_metadata)
       IN vr' = [vr EXCEPT !.searched = TRUE,
                            !.labels = [i \in 1..Len(hits) |-> hits[i].label],
                            !.raised = found.raised,
                            !.results = found.results]
    /\ VrUnchanged

\* Retriever.format_context(passages) on the passages search returned
Retriever_format_context ==
    /\ vr.searched /\ "vector" \notin vr.formatted
    /\ vr' = [vr EXCEPT !.formatted = @ \cup {"vector"},
                         !.vector_context = Retriever_FormatContext(vr.results)]
    /\ VrUnchanged

\* SimpleRetriever.format_context(passages) on the same passages
SimpleRetriever_format_context ==
    /\ vr.searched /\ "lexical" \notin vr.formatted
    /\ vr' = [vr EXCEPT !.formatted = @ \cup {"lexical"},
                         !.lexical_context = SimpleRetriever_FormatContext(vr.results)]
    /\ VrUnchanged

NextVector == Retriever_search \/ Retriever_format_context \/ SimpleRetriever_format_context

SpecVector == InitVector /\ [][NextVector]_vars

\* the labels of labels inside [0, n), in order
RECURSIVE InRange(_, _)
InRange(labels, n) ==
    IF labels = <<>> THEN <<>>
    ELSE (IF 0 <= Head(labels) /\ Head(labels) < n THEN <<Head(labels)>> ELSE <<>>)
             \o InRange(Tail(labels), n)

\* C22: Retriever.search drops every label the index returns outside
\* [0, len(chunks_metadata)): it does not raise, and it returns exactly the
\* metadata entries of the labels inside the range, in order.
C22_OutOfRangeLabelsDropped ==
    vr.searched =>
        /\ ~vr.raised
        /\ Len(vr.results) = Len(InRange(vr.labels, Len(vr.chunks_metadata)))
        /\ \A i \in 1..Len(vr.results) :
               i <= Len(InRange(vr.labels, Len(vr.chunks_metadata))) =>
                   vr.results[i].id =
                       vr.chunks_metadata[InRange(vr.labels, Len(vr.chunks_metadata))[i] + 1].id

\* C24: the vector retriever and the lexical retriever format the same ranked
\* passages into the same context: '[title | source_url] text' blocks in
\* ranked order, joined by a blank line, '---' and a blank line.
C24_SameContextFormat ==
    vr.formatted = {"vector", "lexical"} =>
        /\ vr.lexical_context = vr.vector_context
        /\ vr.lexical_context = Retriever_FormatContext(vr.results)

====
